---- MODULE Spec2Model ----
(***************************************************************************)
(* Model of samples/python/sqlalchemy2-sample/connect.py:                  *)
(* create_test_engine(autocommit, options).                                *)
(*                                                                         *)
(* A Python str is a sequence of one-character strings, so that string     *)
(* formatting, concatenation, suffixes and delimiters are computed and     *)
(* not assumed.  sys.argv[1:] is a sequence of such strings.               *)
(***************************************************************************)
EXTENDS Integers, Sequences, FiniteSets, TLC

\* ------------------------------------------------------------------ bounds

\* Most command-line arguments a modelled process is started with.
MaxArgc == 3

\* Most calls of create_test_engine a modelled process makes.
MaxCalls == 2

\* ------------------------------------------------------- string primitives

Digits == <<"0", "1", "2", "3", "4", "5", "6", "7", "8", "9">>

IsDigit(c) == \E d \in 1..10 : Digits[d] = c

DigitVal(c) == (CHOOSE d \in 1..10 : Digits[d] = c) - 1

EndsWith(s, suffix) ==
    /\ Len(suffix) <= Len(s)
    /\ SubSeq(s, Len(s) - Len(suffix) + 1, Len(s)) = suffix

StartsWith(s, prefix) ==
    /\ Len(prefix) <= Len(s)
    /\ SubSeq(s, 1, Len(prefix)) = prefix

\* str.strip() as int() applies it (the model's only whitespace is " ").
RECURSIVE Strip(_)
Strip(s) ==
    IF s = <<>> THEN s
    ELSE IF Head(s) = " " THEN Strip(Tail(s))
    ELSE IF s[Len(s)] = " " THEN Strip(SubSeq(s, 1, Len(s) - 1))
    ELSE s

\* Value of a run of decimal digits in which "_" separators are skipped.
RECURSIVE Magnitude(_)
Magnitude(s) ==
    IF s = <<>> THEN 0
    ELSE IF s[Len(s)] = "_" THEN Magnitude(SubSeq(s, 1, Len(s) - 1))
    ELSE 10 * Magnitude(SubSeq(s, 1, Len(s) - 1)) + DigitVal(s[Len(s)])

\* Python's int(str): surrounding whitespace, an optional sign, decimal
\* digits (leading zeros allowed) with single "_" between digits.  Python
\* integers are unbounded, so there is no width.  ok = FALSE is ValueError.
ParseInt(s) ==
    LET t      == Strip(s)
        signed == t # <<>> /\ t[1] \in {"+", "-"}
        body   == IF signed THEN Tail(t) ELSE t
        valid  == /\ body # <<>>
                  /\ \A i \in 1..Len(body) :
                        \/ IsDigit(body[i])
                        \/ /\ body[i] = "_"
                           /\ 1 < i /\ i < Len(body)
                           /\ IsDigit(body[i - 1]) /\ IsDigit(body[i + 1])
    IN  IF valid
        THEN [ok |-> TRUE,
              val |-> IF t[1] = "-" THEN 0 - Magnitude(body) ELSE Magnitude(body)]
        ELSE [ok |-> FALSE, val |-> 0]

\* "{port}".format(port=n) for an int n: its canonical decimal rendering.
RECURSIVE ToDecimal(_)
ToDecimal(n) ==
    IF n < 0 THEN <<"-">> \o ToDecimal(0 - n)
    ELSE IF n < 10 THEN <<Digits[n + 1]>>
    ELSE ToDecimal(n \div 10) \o <<Digits[(n % 10) + 1]>>

\* ----------------------------------------------------------------- inputs

EmptyStr == <<>>

HelpFlag == <<"-", "h">>

\* The command-line arguments the model draws sys.argv[1:] from: the empty
\* string, a plain word, integers as text (leading zero, zero, negative,
\* above 65535), the built-in help flag and an unknown flag.
ArgTokens ==
    { EmptyStr,
      <<"h">>,
      <<"0", "5", "4", "3", "2">>,
      <<"0">>,
      <<"-", "1">>,
      <<"0", "6", "5", "5", "3", "6">>,
      HelpFlag,
      <<"-", "x">> }

ArgvSet == UNION { [1..n -> ArgTokens] : n \in 0..MaxArgc }

\* Values of the options parameter the callers pass.
OptionsSet ==
    { EmptyStr,
      <<"?", "a", "=", "b">>,
      <<"&", "a", "=", "b">> }

\* Exceptions create_engine may raise.
Errors == {"ArgumentError", "NoSuchModuleError"}

\* --------------------------------------------------------------- argparse

\* argparse's _negative_number_matcher: '^-\d+$|^-\d*\.\d+$'.
LooksNegativeNumber(a) ==
    /\ Len(a) >= 2
    /\ a[1] = "-"
    /\ \/ \A i \in 2..Len(a) : IsDigit(a[i])
       \/ \E p \in 2..(Len(a) - 1) :
             /\ a[p] = "."
             /\ \A i \in 2..Len(a) : i # p => IsDigit(a[i])

\* argparse's _parse_optional for this parser, whose only option strings are
\* -h and --help: whether an argument is treated as an option string ('O')
\* rather than as a positional ('A').
IsOptionString(a) ==
    /\ a # <<>>
    /\ a[1] = "-"
    /\ \/ a = HelpFlag
       \/ /\ Len(a) > 1
          /\ ~LooksNegativeNumber(a)
          /\ \A i \in 1..Len(a) : a[i] # " "

\* Mutant: a port that is not an integer is read as 0 instead of refused.
ConvertPort_Lenient(a) ==
    IF ParseInt(a).ok THEN ParseInt(a) ELSE [ok |-> TRUE, val |-> 0]

\* Mutant: a port outside 1..65535 is refused at parse time.
ConvertPort_RangeChecked(a) ==
    IF ParseInt(a).ok /\ ParseInt(a).val >= 1 /\ ParseInt(a).val <= 65535
    THEN ParseInt(a)
    ELSE [ok |-> FALSE, val |-> 0]

\* add_argument('port', type=int): the conversion of the port argument.
ConvertPort(a) == ParseInt(a)

NoArgs == [host |-> <<"?">>, port |-> 0, database |-> <<"?">>]

\* parse_args() over arguments i..Len(av), with k positionals already bound
\* to (host, port, database) in ns and extras recording an argument nothing
\* consumed.  Positionals bind left to right, each converted as it is bound
\* (a failed conversion is error(), exit 2); -h prints help and exits 0 when
\* it is reached; at the end a missing positional or an unconsumed argument
\* is error(), exit 2.  The default of a positional without nargs='?' is
\* never used: the argument is required.
RECURSIVE ParseFrom(_, _, _, _, _)
ParseFrom(av, i, k, ns, extras) ==
    IF i > Len(av)
    THEN IF k < 3 \/ extras
         THEN [exit |-> TRUE, code |-> 2, args |-> NoArgs]
         ELSE [exit |-> FALSE, code |-> 0, args |-> ns]
    ELSE IF IsOptionString(av[i])
    THEN IF av[i] = HelpFlag
         THEN [exit |-> TRUE, code |-> 0, args |-> NoArgs]
         ELSE ParseFrom(av, i + 1, k, ns, TRUE)
    ELSE IF k = 0
    THEN ParseFrom(av, i + 1, 1, [ns EXCEPT !.host = av[i]], extras)
    ELSE IF k = 1
    THEN IF ConvertPort(av[i]).ok
         THEN ParseFrom(av, i + 1, 2,
                        [ns EXCEPT !.port = ConvertPort(av[i]).val], extras)
         ELSE [exit |-> TRUE, code |-> 2, args |-> NoArgs]
    ELSE IF k = 2
    THEN ParseFrom(av, i + 1, 3, [ns EXCEPT !.database = av[i]], extras)
    ELSE ParseFrom(av, i + 1, k, ns, TRUE)

\* parser.parse_args() on sys.argv[1:]; database starts at its default 'd'.
ParseArgs(av) ==
    ParseFrom(av, 1, 0, [NoArgs EXCEPT !.database = <<"d">>], FALSE)

\* ------------------------------------------------------------------ state

VARIABLES
    argv,          \* sys.argv[1:]
    pc,            \* position in create_test_engine, "idle" between calls
    autocommit,    \* parameter autocommit of the current call
    options,       \* parameter options of the current call
    args,          \* the parsed namespace
    conn_string,   \* local conn_string
    engine,        \* local engine
    created,       \* what create_engine returned in the current call
    pending_exc,   \* exception create_engine raised in the current call
    result,        \* what the caller got from the last call
    exit_code,     \* process exit status, -1 while the process runs
    ncalls,        \* calls of create_test_engine made so far
    create_calls,  \* create_engine invocations of the current call
    exec_calls,    \* execution_options invocations of the current call
    log            \* every create_engine invocation of the process

vars == <<argv, pc, autocommit, options, args, conn_string, engine, created,
          pending_exc, result, exit_code, ncalls, create_calls, exec_calls, log>>

NoEngine == [kind |-> "none"]

NoResult == [kind |-> "none"]

NoExc == "none"

UrlPrefix ==
    <<"p", "o", "s", "t", "g", "r", "e", "s", "q", "l", "+", "p", "s", "y",
      "c", "o", "p", "g", ":", "/", "/", "u", "s", "e", "r", ":", "p", "a",
      "s", "s", "w", "o", "r", "d", "@">>

SocketDirFirst == <<"?", "h", "o", "s", "t", "=", "/", "t", "m", "p">>

SocketDirNext == <<"&", "h", "o", "s", "t", "=", "/", "t", "m", "p">>

Init ==
    /\ argv \in ArgvSet
    /\ pc = "idle"
    /\ autocommit = FALSE
    /\ options = EmptyStr
    /\ args = NoArgs
    /\ conn_string = EmptyStr
    /\ engine = NoEngine
    /\ created = NoEngine
    /\ pending_exc = NoExc
    /\ result = NoResult
    /\ exit_code = -1
    /\ ncalls = 0
    /\ create_calls = 0
    /\ exec_calls = 0
    /\ log = {}

\* ---------------------------------------------------------------- actions

\* A caller enters create_test_engine(autocommit=a, options=o).
Call(a, o) ==
    /\ pc = "idle"
    /\ ncalls < MaxCalls
    /\ pc' = "parse"
    /\ autocommit' = a
    /\ options' = o
    /\ ncalls' = ncalls + 1
    /\ args' = NoArgs
    /\ conn_string' = EmptyStr
    /\ engine' = NoEngine
    /\ created' = NoEngine
    /\ pending_exc' = NoExc
    /\ result' = NoResult
    /\ create_calls' = 0
    /\ exec_calls' = 0
    /\ UNCHANGED <<argv, exit_code, log>>

\* parse_args() succeeds and binds args.
ParseOk ==
    /\ pc = "parse"
    /\ ~ParseArgs(argv).exit
    /\ args' = ParseArgs(argv).args
    /\ pc' = "format"
    /\ UNCHANGED <<argv, autocommit, options, conn_string, engine, created,
                   pending_exc, result, exit_code, ncalls, create_calls,
                   exec_calls, log>>

\* parse_args() ends the process: usage error (2) or help (0).
ParseExit ==
    /\ pc = "parse"
    /\ ParseArgs(argv).exit
    /\ exit_code' = ParseArgs(argv).code
    /\ pc' = "exited"
    /\ UNCHANGED <<argv, autocommit, options, args, conn_string, engine,
                   created, pending_exc, result, ncalls, create_calls,
                   exec_calls, log>>

\* Mutant: the autocommit flag leaks into the connection string.
FormatConnString_AutocommitInUrl ==
    /\ pc = "format"
    /\ conn_string' = UrlPrefix \o args.host \o <<":">> \o ToDecimal(args.port)
                        \o <<"/">> \o args.database \o options
                        \o (IF autocommit THEN <<";", "a", "c">> ELSE <<>>)
    /\ pc' = "hostcheck"
    /\ UNCHANGED <<argv, autocommit, options, args, engine, created,
                   pending_exc, result, exit_code, ncalls, create_calls,
                   exec_calls, log>>

\* conn_string = "postgresql+psycopg://user:password@{host}:{port}/
\*                {database}{options}".format(...)
FormatConnString ==
    /\ pc = "format"
    /\ conn_string' = UrlPrefix \o args.host \o <<":">> \o ToDecimal(args.port)
                        \o <<"/">> \o args.database \o options
    /\ pc' = "hostcheck"
    /\ UNCHANGED <<argv, autocommit, options, args, engine, created,
                   pending_exc, result, exit_code, ncalls, create_calls,
                   exec_calls, log>>

\* Mutant: the socket directory is appended whatever the host.
AppendSocketDir_Always ==
    /\ pc = "hostcheck"
    /\ conn_string' =
          IF options = EmptyStr
          THEN conn_string \o SocketDirFirst
          ELSE conn_string \o SocketDirNext
    /\ pc' = "create"
    /\ UNCHANGED <<argv, autocommit, options, args, engine, created,
                   pending_exc, result, exit_code, ncalls, create_calls,
                   exec_calls, log>>

\* Mutant: the socket directory is always introduced by "&".
AppendSocketDir_AmpOnly ==
    /\ pc = "hostcheck"
    /\ conn_string' =
          IF args.host = EmptyStr
          THEN conn_string \o SocketDirNext
          ELSE conn_string
    /\ pc' = "create"
    /\ UNCHANGED <<argv, autocommit, options, args, engine, created,
                   pending_exc, result, exit_code, ncalls, create_calls,
                   exec_calls, log>>

\* Mutant: the socket directory is always introduced by "?".
AppendSocketDir_QmarkOnly ==
    /\ pc = "hostcheck"
    /\ conn_string' =
          IF args.host = EmptyStr
          THEN conn_string \o SocketDirFirst
          ELSE conn_string
    /\ pc' = "create"
    /\ UNCHANGED <<argv, autocommit, options, args, engine, created,
                   pending_exc, result, exit_code, ncalls, create_calls,
                   exec_calls, log>>

\* if args.host == "": append "?host=/tmp" or "&host=/tmp".
AppendSocketDir ==
    /\ pc = "hostcheck"
    /\ conn_string' =
          IF args.host = EmptyStr
          THEN IF options = EmptyStr
               THEN conn_string \o SocketDirFirst
               ELSE conn_string \o SocketDirNext
          ELSE conn_string
    /\ pc' = "create"
    /\ UNCHANGED <<argv, autocommit, options, args, engine, created,
                   pending_exc, result, exit_code, ncalls, create_calls,
                   exec_calls, log>>

\* engine = create_engine(conn_string, future=True) returns an engine.
CreateEngineOk ==
    /\ pc = "create"
    /\ create_calls' = create_calls + 1
    /\ log' = log \cup {[autocommit |-> autocommit, options |-> options,
                         url |-> conn_string]}
    /\ engine' = [kind |-> "engine", url |-> conn_string, future |-> TRUE,
                  isolation_level |-> "DEFAULT"]
    /\ created' = engine'
    /\ pc' = "autocommit"
    /\ UNCHANGED <<argv, autocommit, options, args, conn_string, pending_exc,
                   result, exit_code, ncalls, exec_calls>>

\* Mutant: a failed create_engine is attempted a second time.
CreateEngineFail_Retry(err) ==
    /\ pc = "create"
    /\ create_calls' = create_calls + 1
    /\ log' = log \cup {[autocommit |-> autocommit, options |-> options,
                         url |-> conn_string]}
    /\ pending_exc' = err
    /\ pc' = IF create_calls = 0 THEN "create" ELSE "unwind"
    /\ UNCHANGED <<argv, autocommit, options, args, conn_string, engine,
                   created, result, exit_code, ncalls, exec_calls>>

\* create_engine(conn_string, future=True) raises.
CreateEngineFail(err) ==
    /\ pc = "create"
    /\ create_calls' = create_calls + 1
    /\ log' = log \cup {[autocommit |-> autocommit, options |-> options,
                         url |-> conn_string]}
    /\ pending_exc' = err
    /\ pc' = "unwind"
    /\ UNCHANGED <<argv, autocommit, options, args, conn_string, engine,
                   created, result, exit_code, ncalls, exec_calls>>

\* No handler encloses the call: the exception leaves create_test_engine.
Unwind ==
    /\ pc = "unwind"
    /\ result' = [kind |-> "raised", error |-> pending_exc]
    /\ pc' = "idle"
    /\ UNCHANGED <<argv, autocommit, options, args, conn_string, engine,
                   created, pending_exc, exit_code, ncalls, create_calls,
                   exec_calls, log>>

\* Mutant: execution_options is applied whatever the autocommit flag.
ExecutionOptions_Always ==
    /\ pc = "autocommit"
    /\ engine' = [engine EXCEPT !.isolation_level = "AUTOCOMMIT"]
    /\ exec_calls' = exec_calls + 1
    /\ pc' = "return"
    /\ UNCHANGED <<argv, autocommit, options, args, conn_string, created,
                   pending_exc, result, exit_code, ncalls, create_calls, log>>

\* if autocommit: engine = engine.execution_options(isolation_level=...)
ExecutionOptions ==
    /\ pc = "autocommit"
    /\ IF autocommit
       THEN /\ engine' = [engine EXCEPT !.isolation_level = "AUTOCOMMIT"]
            /\ exec_calls' = exec_calls + 1
       ELSE UNCHANGED <<engine, exec_calls>>
    /\ pc' = "return"
    /\ UNCHANGED <<argv, autocommit, options, args, conn_string, created,
                   pending_exc, result, exit_code, ncalls, create_calls, log>>

\* return engine
Return ==
    /\ pc = "return"
    /\ result' = [kind |-> "returned", engine |-> engine]
    /\ pc' = "idle"
    /\ UNCHANGED <<argv, autocommit, options, args, conn_string, engine,
                   created, pending_exc, exit_code, ncalls, create_calls,
                   exec_calls, log>>

Next ==
    \/ \E a \in BOOLEAN, o \in OptionsSet : Call(a, o)
    \/ ParseOk
    \/ ParseExit
    \/ FormatConnString
    \/ AppendSocketDir
    \/ CreateEngineOk
    \/ \E err \in Errors : CreateEngineFail(err)
    \/ Unwind
    \/ ExecutionOptions
    \/ Return

Spec == Init /\ [][Next]_vars

\* ----------------------------------------------------------------- claims

\* What a command line of exactly three positional arguments with an integer
\* port binds, read off sys.argv itself.
AllPositional == \A i \in 1..Len(argv) : ~IsOptionString(argv[i])

ParsedOk == Len(argv) = 3 /\ AllPositional /\ ParseInt(argv[2]).ok

HostArg == argv[1]

PortArg == ParseInt(argv[2]).val

DatabaseArg == argv[3]

HostTmp == <<"h", "o", "s", "t", "=", "/", "t", "m", "p">>

\* The connection string up to and including the database name.
BaseUrl ==
    UrlPrefix \o HostArg \o <<":">> \o ToDecimal(PortArg) \o <<"/">>
        \o DatabaseArg

\* C1: with a non-empty host, every string passed to create_engine is exactly
\* "postgresql+psycopg://user:password@" + host + ":" + decimal(port) + "/" +
\* database + options, with nothing appended.
C1_ExactConnString ==
    \A e \in log :
        (ParsedOk /\ HostArg # EmptyStr) => e.url = BaseUrl \o e.options

C1_Witness ==
    \E e \in log :
        /\ ParsedOk /\ HostArg # EmptyStr
        /\ e.options # EmptyStr

\* C2: with an empty host and empty options, every string passed to
\* create_engine ends with "?host=/tmp".
C2_EmptyHostNoOptions ==
    \A e \in log :
        (ParsedOk /\ HostArg = EmptyStr /\ e.options = EmptyStr)
            => EndsWith(e.url, <<"?">> \o HostTmp)

C2_Witness ==
    \E e \in log : ParsedOk /\ HostArg = EmptyStr /\ e.options = EmptyStr

\* C3: with an empty host and non-empty options, every string passed to
\* create_engine ends with the options, unchanged, followed by "&host=/tmp".
C3_EmptyHostWithOptions ==
    \A e \in log :
        (ParsedOk /\ HostArg = EmptyStr /\ e.options # EmptyStr)
            => EndsWith(e.url, e.options \o <<"&">> \o HostTmp)

C3_Witness ==
    \E e \in log : ParsedOk /\ HostArg = EmptyStr /\ e.options # EmptyStr

\* What follows the database name in a connection string.
QueryPart(url) == SubSeq(url, Len(BaseUrl) + 1, Len(url))

\* A query part starts with its one "?"; "&" introduces what follows.
WellPlaced(q) ==
    /\ q # <<>>
    /\ q[1] = "?"
    /\ \A i \in 2..Len(q) : q[i] # "?"
    /\ \A i \in 2..(Len(q) - Len(HostTmp) + 1) :
          SubSeq(q, i, i + Len(HostTmp) - 1) = HostTmp
              => q[i - 1] \in {"?", "&"}

\* C4: with an empty host, the query part of every string passed to
\* create_engine starts with exactly one "?" after the database name, and
\* every further parameter, host=/tmp included, is introduced by "&".
C4_DelimiterPlacement ==
    \A e \in log :
        (ParsedOk /\ HostArg = EmptyStr) => WellPlaced(QueryPart(e.url))

\* C5: a call with autocommit=true returns an engine whose isolation level is
\* AUTOCOMMIT; a call with autocommit=false returns the engine exactly as
\* create_engine made it, execution_options never applied.
C5_AutocommitIsolation ==
    (pc = "idle" /\ result.kind = "returned") =>
        /\ created.kind = "engine"
        /\ IF autocommit
           THEN /\ result.engine.isolation_level = "AUTOCOMMIT"
                /\ result.engine.url = created.url
                /\ exec_calls = 1
           ELSE /\ result.engine = created
                /\ result.engine.isolation_level = "DEFAULT"
                /\ exec_calls = 0

C5_Witness == pc = "idle" /\ result.kind = "returned" /\ autocommit

\* The port argument is not an integer: the second argument that is not an
\* option string, reached with no help flag before it, is not integer text.
BadPort ==
    \E i \in 1..Len(argv) :
        /\ ~IsOptionString(argv[i])
        /\ Cardinality({j \in 1..(i - 1) : ~IsOptionString(argv[j])}) = 1
        /\ \A j \in 1..(i - 1) : argv[j] # HelpFlag
        /\ ~ParseInt(argv[i]).ok

C7_DatabaseDefault ==
    ( /\ Len(argv) = 2 /\ AllPositional /\ ParseInt(argv[2]).ok
      /\ ncalls > 0 /\ pc # "parse" )
        => (pc # "exited" /\ args.database = <<"d">>)

\* C8: a failure of create_engine reaches the caller as it was raised:
\* create_engine is attempted once per call, no engine is returned and
\* execution_options is not applied after the failure.
C8_FailurePropagates ==
    /\ create_calls <= 1
    /\ pc = "unwind" =>
          /\ pending_exc \in Errors
          /\ create_calls = 1 /\ exec_calls = 0 /\ engine = NoEngine
    /\ result.kind = "raised" =>
          /\ pc = "idle"
          /\ result.error = pending_exc
          /\ create_calls = 1 /\ exec_calls = 0 /\ engine = NoEngine

C8_Witness == result.kind = "raised" /\ autocommit

\* C9: two create_engine invocations with the same options get the same
\* connection string, whatever their autocommit flags.
C9_AutocommitNotInUrl ==
    \A e1, e2 \in log : e1.options = e2.options => e1.url = e2.url

C9_Witness ==
    \E e1, e2 \in log :
        e1.options = e2.options /\ e1.autocommit # e2.autocommit

\* Integer text without its leading zeros.
RECURSIVE DropZeros(_)
DropZeros(s) ==
    IF Len(s) > 1 /\ Head(s) = "0" THEN DropZeros(Tail(s)) ELSE s

\* The canonical decimal text of integer text made of an optional sign and
\* digits, worked out on the text.
Canonical(a) ==
    LET body == IF a[1] \in {"+", "-"} THEN Tail(a) ELSE a
        mag  == DropZeros(body)
    IN  IF a[1] = "-" /\ mag # <<"0">> THEN <<"-">> \o mag ELSE mag

\* C10: the port appears in the connection string in canonical decimal form,
\* not as the argument's text, and every argument that is an integer is
\* accepted, whatever its range, and reaches create_engine.
C10_PortCanonicalNoRange ==
    (ParsedOk /\ ncalls > 0 /\ pc # "parse") =>
        /\ pc # "exited"
        /\ args.port = PortArg
        /\ \A e \in log :
              StartsWith(e.url, UrlPrefix \o HostArg \o <<":">>
                                  \o Canonical(argv[2]) \o <<"/">>)
        /\ (pc = "idle" => log # {})

C10_Witness ==
    /\ ParsedOk
    /\ argv[2] = <<"0", "6", "5", "5", "3", "6">>
    /\ \E e \in log :
          StartsWith(e.url, UrlPrefix \o HostArg
                              \o <<":", "6", "5", "5", "3", "6", "/">>)

====
